---- MODULE Spec2Model ----
(***************************************************************************)
(* trackerscope: the rule store and interception engine of TrackingBlocker *)
(* (src/src/blocking/tracking_blocker.py), the rule manager                *)
(* (src/src/blocking/blocking_rules_manager.py), the request log of        *)
(* NetworkMonitor (src/src/monitors/network_monitor.py) and the tracking   *)
(* graph of TrackingAnalysisEngine                                         *)
(* (src/src/analysis/tracking_analysis_engine.py).                         *)
(*                                                                         *)
(* Text is abstracted to tokens: a URL is a record of its parsed parts, a  *)
(* body is a sequence of tokens, and a regular expression is named by its  *)
(* source text, with the literal alternatives it matches (Alts) and        *)
(* whether re can compile it (Compiles).                                   *)
(*                                                                         *)
(* The specifications share the variables:                                 *)
(*   SpecStore  - mutations of the rule table and the reload of the index  *)
(*   Spec       - interception of requests and responses against an index  *)
(*   SpecNet    - the network monitor's request log and the graph build    *)
(*   SpecGraph  - the analyses of a tracking graph and the risk score      *)
(*   SpecReport - generate_report over a log                               *)
(*   SpecConc   - rule-store operations concurrent with interception       *)
(*   SpecSnapshot - graph builds concurrent with the request log           *)
(*   SpecCookie - the cookie monitor's table and detect_respawning         *)
(*   SpecExperiment - ExperimentRunner.run_experiment                      *)
(***************************************************************************)
EXTENDS Integers, Sequences, FiniteSets, TLC

VARIABLES
    table,          \* rows of blocking_rules (rules_db), committed
    rules,          \* TrackingBlocker.rules: category -> list of rule dicts
    main,           \* the caller's thread: the store operation in progress / last returned
    cur,            \* the interception thread: the event in progress / last handled
    blocking_logs,  \* rows of blocking_logs (logs_db)
    base_domain,    \* NetworkMonitor.base_domain
    requests,       \* rows of requests (network_monitor.db)
    graph,          \* the nx.DiGraph of the last _analyze_cross_domain_tracking
    analysis,       \* the last result computed by the analysis engine
    cookies,        \* rows of cookies (cookie_monitor.db)
    experiment,     \* ExperimentRunner.run_experiment in progress / last ended
    report          \* the last report of TrackingBlocker.generate_report

vars == <<table, rules, main, cur, blocking_logs, base_domain, requests, graph,
          analysis, cookies, experiment, report>>

storeVars == <<table, rules, main>>
engineVars == <<cur, blocking_logs>>
netVars == <<base_domain, requests, graph, analysis>>
runVars == <<cookies, experiment, report>>

(***************************************************************************)
(* Bounds of the model.                                                    *)
(***************************************************************************)
MaxMutations == 3   \* rule-store operations in one behaviour of SpecStore
MaxRules == 2       \* rows of the rule table the engine starts from in Spec
MaxLogs == 2        \* an event is taken only while blocking_logs is shorter
MaxRequests == 3    \* rows of the requests table in SpecNet
MaxEdges == 4       \* edges of the graph analysed in SpecGraph
MaxK == 3           \* k of centralTrackers in SpecGraph
MaxLength == 3      \* maxLength of trackingChains in SpecGraph
MaxHosts == 11      \* blocked hosts in the logs reported on in SpecReport
MaxRepeat == 2      \* further records of one host in those logs
MaxCookies == 3     \* rows of the cookies table in SpecCookie

None == "None"

(***************************************************************************)
(* Regular expressions.                                                    *)
(***************************************************************************)
\* re.compile succeeds: "(" is an unterminated subpattern (re.error).
Compiles(p) == p # "("

\* The literal alternatives of a pattern; "" is contained in every text.
Alts(p) ==
    CASE p = "track" -> {"track"}
      [] p = ".*" -> {""}
      [] p = "strip_params|utm_source" -> {"strip_params", "utm_source"}
      [] p = "fingerprint|navigator.userAgent" -> {"fingerprint", "navigator.userAgent"}
      [] p = "_ga" -> {"_ga"}
      [] p = "fingerprint|.*" -> {"fingerprint", ""}
      [] OTHER -> {}

\* re.search(p, text) for a pattern that compiles, text given by its tokens.
Search(p, tokens) == \E a \in Alts(p) : a = "" \/ a \in tokens

\* `lit in rule['pattern']`: substring test on the pattern's source text.
InPattern(lit, p) == lit \in Alts(p)

Range(s) == {s[i] : i \in 1..Len(s)}

(***************************************************************************)
(* URLs, as urlparse splits them.                                          *)
(***************************************************************************)
Url(scheme, netloc, path, query) ==
    [scheme |-> scheme, netloc |-> netloc, path |-> path, query |-> query]

UrlTrack == Url("https", "ads.example", "track", <<<<"x", "1">>>>)
UrlUtm == Url("https", "x.com", "", <<<<"utm_source", "a">>, <<"id", "7">>>>)
UrlPlain == Url("https", "site.com", "index", <<>>)
UrlSync == Url("https", "sync.example", "sync", <<>>)
UrlData == Url("data", "", "text/plain,hi", <<>>)

\* urlparse(url).netloc
Netloc(url) == url.netloc

\* The tokens of the URL's text.
UrlTokens(url) ==
    {url.scheme, url.netloc, url.path}
        \cup {url.query[i][1] : i \in 1..Len(url.query)}
        \cup {url.query[i][2] : i \in 1..Len(url.query)}

(***************************************************************************)
(* The rule table.                                                         *)
(***************************************************************************)
RuleKeys == {"url", "cookie", "storage", "script", "fingerprint"}

EmptyRules == [k \in RuleKeys |-> <<>>]

\* A row of blocking_rules as INSERT makes it: id AUTOINCREMENT, enabled DEFAULT 1.
Row(id, rule_type, pattern, action, description, priority) ==
    [id |-> id, rule_type |-> rule_type, pattern |-> pattern, action |-> action,
     description |-> description, priority |-> priority, enabled |-> 1]

RuleDict(row) ==
    [id |-> row.id, pattern |-> row.pattern, action |-> row.action,
     description |-> row.description, priority |-> row.priority]

RemoveAt(s, k) == [i \in 1..(Len(s) - 1) |-> IF i < k THEN s[i] ELSE s[i + 1]]

MinPriority(rows) ==
    CHOOSE p \in {rows[i].priority : i \in 1..Len(rows)} :
        \A i \in 1..Len(rows) : p <= rows[i].priority

FirstAt(rows, p) ==
    CHOOSE k \in 1..Len(rows) :
        rows[k].priority = p /\ \A j \in 1..(k - 1) : rows[j].priority # p

LastAt(rows, p) ==
    CHOOSE k \in 1..Len(rows) :
        rows[k].priority = p /\ \A j \in (k + 1)..Len(rows) : rows[j].priority # p

\* A sort that does not keep the scan order of rows of equal priority.
RECURSIVE OrderByPriorityUnstable(_)
OrderByPriorityUnstable(rows) ==
    IF rows = <<>> THEN <<>>
    ELSE LET k == LastAt(rows, MinPriority(rows))
         IN <<rows[k]>> \o OrderByPriorityUnstable(RemoveAt(rows, k))

\* ORDER BY priority over a scan of the table in rowid order: SQLite's sorter
\* is a merge sort that keeps the scan order of rows of equal priority.
RECURSIVE OrderByPriority(_)
OrderByPriority(rows) ==
    IF rows = <<>> THEN <<>>
    ELSE LET k == FirstAt(rows, MinPriority(rows))
         IN <<rows[k]>> \o OrderByPriority(RemoveAt(rows, k))

IsEnabled(row) == row.enabled = 1

\* SELECT * FROM blocking_rules WHERE enabled = 1 ORDER BY priority
SelectEnabledRules(tbl) == OrderByPriority(SelectSeq(tbl, IsEnabled))

\* The loop of load_rules over the fetched rows, up to the first row whose
\* rule_type is no key of self.rules (KeyError).
RECURSIVE AppendRows(_, _)
AppendRows(idx, rows) ==
    IF rows = <<>> \/ Head(rows).rule_type \notin RuleKeys THEN idx
    ELSE AppendRows(
             [idx EXCEPT ![Head(rows).rule_type] = Append(@, RuleDict(Head(rows)))],
             Tail(rows))

\* load_rules run to its end on a table.
LoadRules(tbl) == AppendRows(EmptyRules, SelectEnabledRules(tbl))
(***************************************************************************)
(* Rule-store operations (the caller's thread).                            *)
(***************************************************************************)
Rule(rule_type, pattern, action, priority) ==
    [type |-> rule_type, pattern |-> pattern, action |-> action,
     description |-> "d", priority |-> priority]

\* Arguments of add_rule and entries of an imported document.
RuleInputs ==
    {Rule("url", "track", "block", 1),
     Rule("url", ".*", "log", 1),
     Rule("url", "strip_params|utm_source", "modify", 2),
     Rule("url", "(", "block", 2),
     Rule("script", ".*", "block", 1),
     Rule("script", "fingerprint|navigator.userAgent", "modify", 2),
     Rule("script", "(", "log", 2),
     Rule("script", "fingerprint|.*", "modify", 2),
     Rule("cookie", "_ga", "block", 1),
     Rule("cookie", ".*", "log", 2),
     Rule("tracker", "track", "block", 1)}

\* The categories and actions of a rule (spec.md, section 3).
Categories == {"url", "cookie", "storage", "script"}
Actions == {"block", "modify", "log"}

MainIdle ==
    [pc |-> "idle", op |-> "none", arg |-> <<>>, table0 |-> <<>>,
     rules0 |-> EmptyRules, rows |-> <<>>, error |-> "none", ret |-> 0, n |-> 0]

\* add_rule up to the commit: INSERT, lastrowid, commit, close.
AddRule(r) ==
    /\ main.pc = "idle"
    /\ main.n < MaxMutations
    /\ table' = Append(table,
                       Row(Len(table) + 1, r.type, r.pattern, r.action,
                           r.description, r.priority))
    /\ main' = [pc |-> "load_rules", op |-> "add_rule", arg |-> <<r>>,
                table0 |-> table, rules0 |-> rules, rows |-> <<>>,
                error |-> "none", ret |-> Len(table) + 1, n |-> main.n + 1]
    /\ UNCHANGED rules

\* load_rules: self.rules is replaced by empty lists, then the rows are fetched.
LoadRulesReset ==
    /\ main.pc = "load_rules"
    /\ rules' = EmptyRules
    /\ main' = [main EXCEPT !.pc = "load_append", !.rows = SelectEnabledRules(table)]
    /\ UNCHANGED table

\* load_rules: one turn of the loop over the fetched rows.
LoadRulesAppend ==
    /\ main.pc = "load_append"
    /\ main.rows # <<>>
    /\ Head(main.rows).rule_type \in RuleKeys
    /\ rules' = [rules EXCEPT ![Head(main.rows).rule_type] =
                                  Append(@, RuleDict(Head(main.rows)))]
    /\ main' = [main EXCEPT !.rows = Tail(@)]
    /\ UNCHANGED table

\* load_rules: self.rules[rule[1]] raises KeyError, which leaves add_rule.
LoadRulesKeyError ==
    /\ main.pc = "load_append"
    /\ main.rows # <<>>
    /\ Head(main.rows).rule_type \notin RuleKeys
    /\ main' = [main EXCEPT !.pc = "idle", !.rows = <<>>, !.error = "KeyError",
                            !.ret = 0]
    /\ UNCHANGED <<table, rules>>

\* load_rules ends and add_rule returns rule_id.
LoadRulesReturn ==
    /\ main.pc = "load_append"
    /\ main.rows = <<>>
    /\ main' = [main EXCEPT !.pc = "idle"]
    /\ UNCHANGED <<table, rules>>

\* BlockingRulesManager.add_default_rules: the four default rules.
DefaultRules ==
    <<Rule("url", "track", "block", 1),
      Rule("cookie", "_ga", "block", 1),
      Rule("storage", "fingerprint|navigator.userAgent", "block", 2),
      Rule("script", "fingerprint|navigator.userAgent", "modify", 2)>>

\* The rows a sequence of entries becomes when inserted after n rows, with the
\* priorities given.
InsertedRows(n, entries, prios) ==
    [i \in 1..Len(entries) |->
        Row(n + i, entries[i].type, entries[i].pattern, entries[i].action,
            entries[i].description, prios[i])]

\* rule['priority'] of each entry
Priorities(entries) == [i \in 1..Len(entries) |-> entries[i].priority]

AddDefaultRules ==
    /\ main.pc = "idle"
    /\ main.n < MaxMutations
    /\ table' = table \o InsertedRows(Len(table), DefaultRules, Priorities(DefaultRules))
    /\ main' = [pc |-> "idle", op |-> "add_default_rules", arg |-> DefaultRules,
                table0 |-> table, rules0 |-> rules, rows |-> <<>>,
                error |-> "none", ret |-> 0, n |-> main.n + 1]
    /\ UNCHANGED rules

\* Entries of imported documents: without a field, with an unknown category
\* or action, without a priority.
NoAction == [type |-> "url", pattern |-> "track", description |-> "d", priority |-> 1]
BadAction == [Rule("url", "track", "block", 1) EXCEPT !.action = "nuke"]
NoPriority == [type |-> "url", pattern |-> ".*", action |-> "log", description |-> "d"]

Documents ==
    {<<Rule("url", "track", "block", 1)>>,
     <<Rule("url", ".*", "log", 1), NoAction>>,
     <<Rule("tracker", "track", "block", 1)>>,
     <<BadAction>>,
     <<NoPriority, Rule("script", ".*", "block", 1)>>}

\* The fields import_rules reads with rule[...]: a missing one raises KeyError.
RequiredFields == {"type", "pattern", "action", "description"}

HasFields(e) == RequiredFields \subseteq DOMAIN e

\* The default of rule.get('priority', ...).
DefaultPriority == 1

ImportPriority(e) == IF "priority" \in DOMAIN e THEN e.priority ELSE DefaultPriority

ImportPriorities(doc) == [i \in 1..Len(doc) |-> ImportPriority(doc[i])]

\* import_rules: the loop of INSERTs inside one transaction.  A KeyError leaves
\* the function before any commit, and the connection's transaction is rolled
\* back when it is closed.
ImportRules(doc) ==
    /\ main.pc = "idle"
    /\ main.n < MaxMutations
    /\ IF \A i \in 1..Len(doc) : HasFields(doc[i])
       THEN main' = [pc |-> "import_commit", op |-> "import_rules", arg |-> doc,
                     table0 |-> table, rules0 |-> rules,
                     rows |-> InsertedRows(Len(table), doc, ImportPriorities(doc)),
                     error |-> "none", ret |-> 0, n |-> main.n + 1]
       ELSE main' = [pc |-> "idle", op |-> "import_rules", arg |-> doc,
                     table0 |-> table, rules0 |-> rules, rows |-> <<>>,
                     error |-> "KeyError", ret |-> 0, n |-> main.n + 1]
    /\ UNCHANGED <<table, rules>>

\* import_rules after the loop: commit and close.
ImportCommit ==
    /\ main.pc = "import_commit"
    /\ table' = table \o main.rows
    /\ main' = [main EXCEPT !.pc = "idle", !.rows = <<>>]
    /\ UNCHANGED rules

CurIdle ==
    [pc |-> "idle", kind |-> "none", url |-> UrlPlain, url0 |-> UrlPlain,
     reqbody |-> None, body |-> <<>>, body0 |-> <<>>, list |-> <<>>, i |-> 0,
     searched |-> <<>>, matched |-> <<>>, aborted |-> FALSE, fp |-> FALSE,
     nlog |-> 0, raised |-> "none", cookie |-> None, live |-> FALSE]

EmptyGraph == [nodes |-> {}, edges |-> {}]

NoAnalysis == [op |-> "none", arg |-> 0, result |-> <<>>]

\* run_experiment: where it is, the drivers created and quit, the names bound.
ExperimentIdle ==
    [pc |-> "idle", config |-> [blocking_enabled |-> FALSE, base_port |-> FALSE],
     created |-> {}, quit |-> {}, bound |-> {}, error |-> "none",
     outcome |-> "none"]

NoReport == [made |-> FALSE]

InitStore ==
    /\ table = <<>>
    /\ rules = LoadRules(<<>>)
    /\ main = MainIdle
    /\ cur = CurIdle
    /\ blocking_logs = <<>>
    /\ base_domain = None
    /\ requests = <<>>
    /\ graph = EmptyGraph
    /\ analysis = NoAnalysis
    /\ cookies = <<>>
    /\ experiment = ExperimentIdle
    /\ report = NoReport

NextStore ==
    \/ \E r \in RuleInputs : AddRule(r) /\ UNCHANGED <<engineVars, netVars, runVars>>
    \/ LoadRulesReset /\ UNCHANGED <<engineVars, netVars, runVars>>
    \/ LoadRulesAppend /\ UNCHANGED <<engineVars, netVars, runVars>>
    \/ LoadRulesKeyError /\ UNCHANGED <<engineVars, netVars, runVars>>
    \/ LoadRulesReturn /\ UNCHANGED <<engineVars, netVars, runVars>>
    \/ AddDefaultRules /\ UNCHANGED <<engineVars, netVars, runVars>>
    \/ \E doc \in Documents : ImportRules(doc) /\ UNCHANGED <<engineVars, netVars, runVars>>
    \/ ImportCommit /\ UNCHANGED <<engineVars, netVars, runVars>>

SpecStore == InitStore /\ [][NextStore]_vars

(***************************************************************************)
(* Interception (the proxy's thread): TrackingBlocker._intercept_request   *)
(* and _intercept_response, one statement with an effect per step.         *)
(***************************************************************************)
RequestUrls == {UrlTrack, UrlUtm, UrlPlain}
RequestBodies == {None, <<"canvas.toDataURL">>}
ResponseBodies == {None, <<>>, <<"navigator.userAgent", "track">>}

\* fingerprinting_patterns of _detect_fingerprinting
FingerprintingPatterns ==
    {"canvas.toDataURL", "navigator.userAgent", "navigator.plugins",
     "navigator.platform", "navigator.language", "screen.width", "screen.height",
     "window.innerWidth", "window.innerHeight"}

\* request.body or b''
BodyOrEmpty(body) == IF body = None THEN <<>> ELSE body

DetectFingerprinting(reqbody) ==
    \E p \in FingerprintingPatterns : p \in Range(BodyOrEmpty(reqbody))

\* replacements of _modify_script
Replacement(tok) ==
    CASE tok = "canvas.toDataURL" -> "function() { return \"\"; }"
      [] tok = "navigator.userAgent" -> "\"Mozilla/5.0\""
      [] tok = "navigator.plugins" -> "[]"
      [] tok = "navigator.vendorSub" -> "\"\""
      [] OTHER -> tok

\* A rewrite that puts a stub in front of the script.
ModifyScriptStub(body, rule) == <<"\"Mozilla/5.0\"">> \o body

ModifyScript(body, rule) ==
    IF InPattern("fingerprint", rule.pattern)
    THEN [i \in 1..Len(body) |-> Replacement(body[i])]
    ELSE body

\* The row _log_blocking inserts.
LogRow(rule_id, action, url, request_type) ==
    [rule_id |-> rule_id, action |-> action, request_url |-> url,
     request_type |-> request_type, domain |-> Netloc(url)]

CurRule == cur.list[cur.i]

\* An interceptor that walks the rules of the cookie category too.
InterceptRequestAllRules(url, body) ==
    /\ cur.pc = "idle"
    /\ Len(blocking_logs) < MaxLogs
    /\ cur' = [CurIdle EXCEPT !.pc = "req_rule", !.kind = "request", !.url = url,
                              !.url0 = url, !.reqbody = body,
                              !.list = rules["url"] \o rules["cookie"], !.i = 1,
                              !.live = (main.pc = "load_append")]
    /\ UNCHANGED blocking_logs

InterceptRequest(url, body) ==
    /\ cur.pc = "idle"
    /\ Len(blocking_logs) < MaxLogs
    /\ cur' = [CurIdle EXCEPT !.pc = "req_rule", !.kind = "request", !.url = url,
                              !.url0 = url, !.reqbody = body,
                              !.list = rules["url"], !.i = 1,
                              !.live = (main.pc = "load_append")]
    /\ UNCHANGED blocking_logs

\* re.search raises re.error on a pattern that does not compile.
ReqRuleRaise ==
    /\ cur.pc = "req_rule"
    /\ cur.i <= Len(cur.list)
    /\ ~Compiles(CurRule.pattern)
    /\ cur' = [cur EXCEPT !.pc = "idle", !.raised = "re.error",
                          !.searched = Append(@, CurRule.id)]
    /\ UNCHANGED blocking_logs

\* The rule does not match, or matches with an action that is neither block
\* nor modify: the loop goes on.
ReqRulePass ==
    /\ cur.pc = "req_rule"
    /\ cur.i <= Len(cur.list)
    /\ Compiles(CurRule.pattern)
    /\ LET hit == Search(CurRule.pattern, UrlTokens(cur.url))
       IN /\ ~hit \/ CurRule.action \notin {"block", "modify"}
          /\ cur' = [cur EXCEPT !.i = @ + 1,
                                !.searched = Append(@, CurRule.id),
                                !.matched = IF hit THEN Append(@, CurRule.id) ELSE @]
    /\ UNCHANGED blocking_logs

\* A matching block rule: next _log_blocking, then request.abort().
ReqRuleBlock ==
    /\ cur.pc = "req_rule"
    /\ cur.i <= Len(cur.list)
    /\ Compiles(CurRule.pattern)
    /\ Search(CurRule.pattern, UrlTokens(cur.url))
    /\ CurRule.action = "block"
    /\ cur' = [cur EXCEPT !.pc = "req_log",
                          !.searched = Append(@, CurRule.id),
                          !.matched = Append(@, CurRule.id)]
    /\ UNCHANGED blocking_logs

\* tracking_params of _modify_request
TrackingParams ==
    {"utm_source", "utm_medium", "utm_campaign", "fbclid", "gclid", "_ga", "ref"}

\* A matching modify rule: _modify_request.  With 'strip_params' in the
\* pattern the new query is built and urlparse.urlunparse raises
\* AttributeError (urlparse is the function of urllib.parse) before
\* request.url is assigned; otherwise nothing is done.  The loop goes on.
ReqRuleModify ==
    /\ cur.pc = "req_rule"
    /\ cur.i <= Len(cur.list)
    /\ Compiles(CurRule.pattern)
    /\ Search(CurRule.pattern, UrlTokens(cur.url))
    /\ CurRule.action = "modify"
    /\ IF InPattern("strip_params", CurRule.pattern)
       THEN cur' = [cur EXCEPT !.pc = "idle", !.raised = "AttributeError",
                               !.searched = Append(@, CurRule.id),
                               !.matched = Append(@, CurRule.id)]
       ELSE cur' = [cur EXCEPT !.i = @ + 1,
                               !.searched = Append(@, CurRule.id),
                               !.matched = Append(@, CurRule.id)]
    /\ UNCHANGED blocking_logs

\* After the loop: _detect_fingerprinting on the request body.
ReqFingerprint ==
    /\ cur.pc = "req_rule"
    /\ cur.i > Len(cur.list)
    /\ IF DetectFingerprinting(cur.reqbody)
       THEN cur' = [cur EXCEPT !.pc = "req_log", !.fp = TRUE]
       ELSE cur' = [cur EXCEPT !.pc = "idle"]
    /\ UNCHANGED blocking_logs

\* A log that keeps only its newest record.
ReqLogBlockingOverwrite ==
    /\ cur.pc = "req_log"
    /\ blocking_logs' =
           <<IF cur.fp
             THEN LogRow(None, "block", cur.url, "fingerprint")
             ELSE LogRow(CurRule.id, "block", cur.url, "url")>>
    /\ cur' = [cur EXCEPT !.pc = "req_abort", !.nlog = @ + 1]

\* _log_blocking of a request: the matched block rule, or None for a
\* fingerprint block.
ReqLogBlocking ==
    /\ cur.pc = "req_log"
    /\ blocking_logs' =
           Append(blocking_logs,
                  IF cur.fp
                  THEN LogRow(None, "block", cur.url, "fingerprint")
                  ELSE LogRow(CurRule.id, "block", cur.url, "url"))
    /\ cur' = [cur EXCEPT !.pc = "req_abort", !.nlog = @ + 1]

\* _log_blocking raises (sqlite3.connect, execute or commit fails): the
\* exception leaves _intercept_request before request.abort().
ReqLogRaise ==
    /\ cur.pc = "req_log"
    /\ cur' = [cur EXCEPT !.pc = "idle", !.raised = "sqlite3.Error"]
    /\ UNCHANGED blocking_logs

\* request.abort(); return
ReqAbort ==
    /\ cur.pc = "req_abort"
    /\ cur' = [cur EXCEPT !.pc = "idle", !.aborted = TRUE]
    /\ UNCHANGED blocking_logs

InterceptResponse(url, body) ==
    /\ cur.pc = "idle"
    /\ Len(blocking_logs) < MaxLogs
    /\ IF body = None
       THEN cur' = [CurIdle EXCEPT !.kind = "response", !.url = url, !.url0 = url]
       ELSE cur' = [CurIdle EXCEPT !.pc = "resp_rule", !.kind = "response",
                                   !.url = url, !.url0 = url, !.body = body,
                                   !.body0 = body, !.list = rules["script"],
                                   !.i = 1, !.live = (main.pc = "load_append")]
    /\ UNCHANGED blocking_logs

RespRuleRaise ==
    /\ cur.pc = "resp_rule"
    /\ cur.i <= Len(cur.list)
    /\ ~Compiles(CurRule.pattern)
    /\ cur' = [cur EXCEPT !.pc = "idle", !.raised = "re.error",
                          !.searched = Append(@, CurRule.id)]
    /\ UNCHANGED blocking_logs

RespRulePass ==
    /\ cur.pc = "resp_rule"
    /\ cur.i <= Len(cur.list)
    /\ Compiles(CurRule.pattern)
    /\ ~Search(CurRule.pattern, Range(cur.body))
    /\ cur' = [cur EXCEPT !.i = @ + 1, !.searched = Append(@, CurRule.id)]
    /\ UNCHANGED blocking_logs

\* A matching script rule: the body is emptied (block), rewritten (modify) or
\* kept; next _log_blocking.
RespRuleMatch ==
    /\ cur.pc = "resp_rule"
    /\ cur.i <= Len(cur.list)
    /\ Compiles(CurRule.pattern)
    /\ Search(CurRule.pattern, Range(cur.body))
    /\ cur' = [cur EXCEPT !.pc = "resp_log",
                          !.searched = Append(@, CurRule.id),
                          !.matched = Append(@, CurRule.id),
                          !.body = CASE CurRule.action = "block" -> <<>>
                                     [] CurRule.action = "modify" -> ModifyScript(@, CurRule)
                                     [] OTHER -> @]
    /\ UNCHANGED blocking_logs

\* A log written at its front.
RespLogBlockingFront ==
    /\ cur.pc = "resp_log"
    /\ blocking_logs' =
           <<LogRow(CurRule.id, CurRule.action, cur.url, "script")>> \o blocking_logs
    /\ cur' = [cur EXCEPT !.pc = "resp_rule", !.i = @ + 1, !.nlog = @ + 1]

RespLogBlocking ==
    /\ cur.pc = "resp_log"
    /\ blocking_logs' =
           Append(blocking_logs, LogRow(CurRule.id, CurRule.action, cur.url, "script"))
    /\ cur' = [cur EXCEPT !.pc = "resp_rule", !.i = @ + 1, !.nlog = @ + 1]

\* _log_blocking raises: the exception leaves _intercept_response after the
\* body was changed.
RespLogRaise ==
    /\ cur.pc = "resp_log"
    /\ cur' = [cur EXCEPT !.pc = "idle", !.raised = "sqlite3.Error"]
    /\ UNCHANGED blocking_logs

RespReturn ==
    /\ cur.pc = "resp_rule"
    /\ cur.i > Len(cur.list)
    /\ cur' = [cur EXCEPT !.pc = "idle"]
    /\ UNCHANGED blocking_logs

CookieNames == {"_ga", "session"}

\* A cookie-set event of the page.  The interceptors are the only code that
\* reads self.rules, and they read 'url' and 'script': no rule of
\* self.rules['cookie'] is searched, nothing is vetoed by a rule and no record
\* is written.
CookieSet(name) ==
    /\ cur.pc = "idle"
    /\ cur' = [CurIdle EXCEPT !.kind = "cookie", !.cookie = name]
    /\ UNCHANGED blocking_logs

\* The rules a TrackingBlocker can be constructed over: load_rules of
\* __init__ raises on a row whose rule_type is no key of self.rules.
EngineRules == {r \in RuleInputs : r.type \in RuleKeys}

EngineTables ==
    {InsertedRows(0, rs, Priorities(rs)) :
        rs \in UNION {[1..n -> EngineRules] : n \in 0..MaxRules}}

Init ==
    /\ table \in EngineTables
    /\ rules = LoadRules(table)
    /\ main = MainIdle
    /\ cur = CurIdle
    /\ blocking_logs = <<>>
    /\ base_domain = None
    /\ requests = <<>>
    /\ graph = EmptyGraph
    /\ analysis = NoAnalysis
    /\ cookies = <<>>
    /\ experiment = ExperimentIdle
    /\ report = NoReport

Next ==
    \/ \E u \in RequestUrls, b \in RequestBodies :
           InterceptRequest(u, b) /\ UNCHANGED <<storeVars, netVars, runVars>>
    \/ ReqRuleRaise /\ UNCHANGED <<storeVars, netVars, runVars>>
    \/ ReqRulePass /\ UNCHANGED <<storeVars, netVars, runVars>>
    \/ ReqRuleBlock /\ UNCHANGED <<storeVars, netVars, runVars>>
    \/ ReqRuleModify /\ UNCHANGED <<storeVars, netVars, runVars>>
    \/ ReqFingerprint /\ UNCHANGED <<storeVars, netVars, runVars>>
    \/ ReqLogBlocking /\ UNCHANGED <<storeVars, netVars, runVars>>
    \/ ReqLogRaise /\ UNCHANGED <<storeVars, netVars, runVars>>
    \/ ReqAbort /\ UNCHANGED <<storeVars, netVars, runVars>>
    \/ \E b \in ResponseBodies :
           InterceptResponse(UrlTrack, b) /\ UNCHANGED <<storeVars, netVars, runVars>>
    \/ RespRuleRaise /\ UNCHANGED <<storeVars, netVars, runVars>>
    \/ RespRulePass /\ UNCHANGED <<storeVars, netVars, runVars>>
    \/ RespRuleMatch /\ UNCHANGED <<storeVars, netVars, runVars>>
    \/ RespLogBlocking /\ UNCHANGED <<storeVars, netVars, runVars>>
    \/ RespLogRaise /\ UNCHANGED <<storeVars, netVars, runVars>>
    \/ RespReturn /\ UNCHANGED <<storeVars, netVars, runVars>>
    \/ \E n \in CookieNames : CookieSet(n) /\ UNCHANGED <<storeVars, netVars, runVars>>

Spec == Init /\ [][Next]_vars

(***************************************************************************)
(* TrackingBlocker.generate_report.                                        *)
(***************************************************************************)
\* LIMIT 10 of the query for top_blocked_domains
TopLimit == 10

\* The hosts of the model's URLs in ascending order of their names.
HostOrder ==
    <<"ads.example", "h01.example", "h02.example", "h03.example", "h04.example",
      "h05.example", "h06.example", "h07.example", "h08.example", "h09.example",
      "h10.example", "h11.example", "h12.example", "site.com", "sync.example",
      "x.com">>

HostRank(d) == CHOOSE i \in 1..Len(HostOrder) : HostOrder[i] = d

CountOf(logs, field, v) == Cardinality({i \in 1..Len(logs) : logs[i][field] = v})

\* SELECT request_type, COUNT(*) FROM blocking_logs GROUP BY request_type, as a dict
BlocksByType(logs) ==
    [t \in {logs[i].request_type : i \in 1..Len(logs)} |->
        CountOf(logs, "request_type", t)]

\* sum(d.values())
RECURSIVE SumValues(_, _)
SumValues(d, keys) ==
    IF keys = {} THEN 0
    ELSE LET k == CHOOSE x \in keys : TRUE
         IN d[k] + SumValues(d, keys \ {k})

\* ORDER BY count DESC over the groups of GROUP BY domain: SQLite hands the
\* groups of equal count over in descending order of the domain.
RECURSIVE OrderByCountDesc(_, _)
OrderByCountDesc(logs, domains) ==
    IF domains = {} THEN <<>>
    ELSE LET top == CHOOSE d \in domains :
                        \A e \in domains \ {d} :
                            \/ CountOf(logs, "domain", d) > CountOf(logs, "domain", e)
                            \/ /\ CountOf(logs, "domain", d) = CountOf(logs, "domain", e)
                               /\ HostRank(d) > HostRank(e)
         IN <<<<top, CountOf(logs, "domain", top)>>>>
                \o OrderByCountDesc(logs, domains \ {top})

Limit(rows, n) == SubSeq(rows, 1, IF Len(rows) < n THEN Len(rows) ELSE n)

\* The query for top_blocked_domains without its LIMIT.
TopBlockedDomainsAll(logs) ==
    OrderByCountDesc(logs, {logs[i].domain : i \in 1..Len(logs)})

\* SELECT domain, COUNT(*) as count FROM blocking_logs GROUP BY domain
\* ORDER BY count DESC LIMIT 10
TopBlockedDomains(logs) ==
    Limit(OrderByCountDesc(logs, {logs[i].domain : i \in 1..Len(logs)}), TopLimit)

\* len(rules) of every category
ByType(idx) == [k \in DOMAIN idx |-> Len(idx[k])]

Report(logs, idx) ==
    [made |-> TRUE,
     total_blocks |-> SumValues(BlocksByType(logs), DOMAIN BlocksByType(logs)),
     blocks_by_type |-> BlocksByType(logs),
     top_blocked_domains |-> TopBlockedDomains(logs),
     blocking_rules |-> [active |-> SumValues(ByType(idx), DOMAIN idx),
                         by_type |-> ByType(idx)]]

GenerateReport ==
    /\ main.pc = "idle"
    /\ report' = Report(blocking_logs, rules)
    /\ UNCHANGED <<cookies, experiment>>

\* Logs of blocked requests to the first n hosts h01.example, h02.example, ...,
\* one record each, and m further records of the n-th.
HostUrl(h) == Url("https", h, "track", <<>>)

HostLog(n, m) ==
    [i \in 1..(n + (IF n = 0 THEN 0 ELSE m)) |->
        IF i <= n
        THEN LogRow(1, "block", HostUrl(HostOrder[i + 1]), "url")
        ELSE LogRow(2, "block", HostUrl(HostOrder[n + 1]), "script")]

ReportLogs == {HostLog(n, m) : n \in 0..MaxHosts, m \in 0..MaxRepeat}

\* The rule tables reported on: the first n default rules.
ReportTables ==
    {InsertedRows(0, SubSeq(DefaultRules, 1, n),
                  Priorities(SubSeq(DefaultRules, 1, n))) :
        n \in 0..Len(DefaultRules)}

InitReport ==
    /\ table \in ReportTables
    /\ rules = LoadRules(table)
    /\ main = MainIdle
    /\ cur = CurIdle
    /\ blocking_logs \in ReportLogs
    /\ base_domain = None
    /\ requests = <<>>
    /\ graph = EmptyGraph
    /\ analysis = NoAnalysis
    /\ cookies = <<>>
    /\ experiment = ExperimentIdle
    /\ report = NoReport

NextReport == GenerateReport /\ UNCHANGED <<storeVars, engineVars, netVars>>

SpecReport == InitReport /\ [][NextReport]_vars

(***************************************************************************)
(* The caller's thread and the proxy's thread together: add_rule with its  *)
(* load_rules and generate_report run while events are intercepted.  The   *)
(* `for rule in self.rules[...]` of an interceptor holds the list object   *)
(* it took: a list taken from the dict load_rules is filling (cur.live)    *)
(* grows under the loop, a list of a replaced dict does not.               *)
(***************************************************************************)
\* The category of the rules an event is matched against.
ListKey == IF cur.kind = "request" THEN "url" ELSE "script"

ConcLoadRulesReset ==
    /\ LoadRulesReset
    /\ cur' = [cur EXCEPT !.live = FALSE]
    /\ UNCHANGED blocking_logs

ConcLoadRulesAppend ==
    /\ LoadRulesAppend
    /\ cur' = IF cur.live /\ cur.pc # "idle" /\ Head(main.rows).rule_type = ListKey
              THEN [cur EXCEPT !.list = Append(@, RuleDict(Head(main.rows)))]
              ELSE cur
    /\ UNCHANGED blocking_logs

\* The rules added while events are intercepted: those that every step of the
\* interceptors and of load_rules needs to be taken.
ConcRuleInputs ==
    {Rule("url", "track", "block", 1),
     Rule("url", "strip_params|utm_source", "modify", 2),
     Rule("url", "(", "block", 2),
     Rule("script", "track", "block", 1),
     Rule("script", "(", "log", 2),
     Rule("tracker", "track", "block", 1)}

\* The events intercepted meanwhile: a request to a tracker, a request with
\* tracking parameters and a fingerprinting body, and script responses.
ConcRequests == {<<UrlTrack, None>>, <<UrlUtm, <<"canvas.toDataURL">>>>}
ConcBodies == {<<>>, <<"navigator.userAgent", "track">>}

InitConc ==
    /\ table = <<>>
    /\ rules = LoadRules(<<>>)
    /\ main = MainIdle
    /\ cur = CurIdle
    /\ blocking_logs = <<>>
    /\ base_domain = None
    /\ requests = <<>>
    /\ graph = EmptyGraph
    /\ analysis = NoAnalysis
    /\ cookies = <<>>
    /\ experiment = ExperimentIdle
    /\ report = NoReport

NextConc ==
    \/ \E r \in ConcRuleInputs :
           /\ Len(table) < MaxRules
           /\ AddRule(r)
           /\ UNCHANGED <<engineVars, netVars, runVars>>
    \/ ConcLoadRulesReset /\ UNCHANGED <<netVars, runVars>>
    \/ ConcLoadRulesAppend /\ UNCHANGED <<netVars, runVars>>
    \/ LoadRulesKeyError /\ UNCHANGED <<engineVars, netVars, runVars>>
    \/ LoadRulesReturn /\ UNCHANGED <<engineVars, netVars, runVars>>
    \/ GenerateReport /\ UNCHANGED <<storeVars, engineVars, netVars>>
    \/ \E e \in ConcRequests :
           InterceptRequest(e[1], e[2]) /\ UNCHANGED <<storeVars, netVars, runVars>>
    \/ ReqRuleRaise /\ UNCHANGED <<storeVars, netVars, runVars>>
    \/ ReqRulePass /\ UNCHANGED <<storeVars, netVars, runVars>>
    \/ ReqRuleBlock /\ UNCHANGED <<storeVars, netVars, runVars>>
    \/ ReqRuleModify /\ UNCHANGED <<storeVars, netVars, runVars>>
    \/ ReqFingerprint /\ UNCHANGED <<storeVars, netVars, runVars>>
    \/ ReqLogBlocking /\ UNCHANGED <<storeVars, netVars, runVars>>
    \/ ReqLogRaise /\ UNCHANGED <<storeVars, netVars, runVars>>
    \/ ReqAbort /\ UNCHANGED <<storeVars, netVars, runVars>>
    \/ \E b \in ConcBodies :
           InterceptResponse(UrlTrack, b) /\ UNCHANGED <<storeVars, netVars, runVars>>
    \/ RespRuleRaise /\ UNCHANGED <<storeVars, netVars, runVars>>
    \/ RespRulePass /\ UNCHANGED <<storeVars, netVars, runVars>>
    \/ RespRuleMatch /\ UNCHANGED <<storeVars, netVars, runVars>>
    \/ RespLogBlocking /\ UNCHANGED <<storeVars, netVars, runVars>>
    \/ RespLogRaise /\ UNCHANGED <<storeVars, netVars, runVars>>
    \/ RespReturn /\ UNCHANGED <<storeVars, netVars, runVars>>

SpecConc == InitConc /\ [][NextConc]_vars

(***************************************************************************)
(* NetworkMonitor's request log and the graph of                           *)
(* TrackingAnalysisEngine._analyze_cross_domain_tracking.                  *)
(***************************************************************************)
BaseUrls == {UrlPlain, UrlSync}
MonitoredUrls == {UrlTrack, UrlUtm, UrlPlain, UrlSync, UrlData}

\* The row request_interceptor stores: domain is the netloc of the request's
\* own URL, third_party compares it with the monitored site's.  origin is no
\* column of the table: it records, for the properties only, the site that
\* was monitored when the request was made.
RequestRow(url, base) ==
    [url |-> url, domain |-> Netloc(url),
     third_party |-> IF Netloc(url) # base THEN 1 ELSE 0,
     origin |-> base]

StartMonitoring(base_url) ==
    /\ base_domain' = Netloc(base_url)
    /\ UNCHANGED <<requests, graph, analysis>>

RequestInterceptor(url) ==
    /\ base_domain # None
    /\ Len(requests) < MaxRequests
    /\ requests' = Append(requests, RequestRow(url, base_domain))
    /\ UNCHANGED <<base_domain, graph, analysis>>

\* A graph that keeps only the edge added last.
AddEdgeLast(g, u, v) == [nodes |-> {u, v}, edges |-> {<<u, v>>}]

\* graph.add_edge(u, v) of a DiGraph: both nodes, one edge per ordered pair.
AddEdge(g, u, v) == [nodes |-> g.nodes \cup {u, v}, edges |-> g.edges \cup {<<u, v>>}]

\* The loop over SELECT domain, url, headers FROM requests WHERE third_party = 1.
RECURSIVE BuildGraph(_, _)
BuildGraph(g, rows) ==
    IF rows = <<>> THEN g
    ELSE LET source_domain == Head(rows).domain
             target_domain == Netloc(Head(rows).url)
         IN BuildGraph(
                IF Head(rows).third_party = 1 /\ source_domain # "" /\ target_domain # ""
                THEN AddEdge(g, source_domain, target_domain)
                ELSE g,
                Tail(rows))

AnalyzeCrossDomainTracking ==
    /\ graph' = BuildGraph(EmptyGraph, requests)
    /\ UNCHANGED <<base_domain, requests, analysis>>

InitNet ==
    /\ table = <<>>
    /\ rules = LoadRules(<<>>)
    /\ main = MainIdle
    /\ cur = CurIdle
    /\ blocking_logs = <<>>
    /\ base_domain = None
    /\ requests = <<>>
    /\ graph = EmptyGraph
    /\ analysis = NoAnalysis
    /\ cookies = <<>>
    /\ experiment = ExperimentIdle
    /\ report = NoReport

NextNet ==
    \/ \E b \in BaseUrls : StartMonitoring(b) /\ UNCHANGED <<storeVars, engineVars, runVars>>
    \/ \E u \in MonitoredUrls : RequestInterceptor(u) /\ UNCHANGED <<storeVars, engineVars, runVars>>
    \/ AnalyzeCrossDomainTracking /\ UNCHANGED <<storeVars, engineVars, runVars>>

SpecNet == InitNet /\ [][NextNet]_vars

(***************************************************************************)
(* _analyze_cross_domain_tracking while the monitor goes on storing        *)
(* requests: the SELECT is read whole by c.fetchall(), under SQLite's      *)
(* isolation of a statement from commits of other connections, and the     *)
(* loop then works on the rows fetched.                                    *)
(***************************************************************************)
\* A read that misses the oldest row.
AnalyzeFetchTorn ==
    /\ analysis.op # "fetchall"
    /\ analysis' = [op |-> "fetchall",
                    arg |-> IF Len(requests) >= 2 THEN Tail(requests) ELSE requests,
                    result |-> <<>>]
    /\ UNCHANGED <<base_domain, requests, graph>>

\* c.execute(SELECT ...) and c.fetchall(): the rows of the table at that moment.
AnalyzeFetch ==
    /\ analysis.op # "fetchall"
    /\ analysis' = [op |-> "fetchall", arg |-> requests, result |-> <<>>]
    /\ UNCHANGED <<base_domain, requests, graph>>

\* The loop over the fetched rows.  result records, for the properties only,
\* the number of rows in the table when the loop ends.
AnalyzeBuild ==
    /\ analysis.op = "fetchall"
    /\ graph' = BuildGraph(EmptyGraph, analysis.arg)
    /\ analysis' = [op |-> "cross_domain", arg |-> analysis.arg,
                    result |-> <<Len(requests)>>]
    /\ UNCHANGED <<base_domain, requests>>

NextSnapshot ==
    \/ \E b \in BaseUrls : StartMonitoring(b) /\ UNCHANGED <<storeVars, engineVars, runVars>>
    \/ \E u \in MonitoredUrls : RequestInterceptor(u) /\ UNCHANGED <<storeVars, engineVars, runVars>>
    \/ AnalyzeFetch /\ UNCHANGED <<storeVars, engineVars, runVars>>
    \/ AnalyzeBuild /\ UNCHANGED <<storeVars, engineVars, runVars>>

SpecSnapshot == InitNet /\ [][NextSnapshot]_vars

(***************************************************************************)
(* CookieMonitor: the cookies table and detect_respawning.                 *)
(***************************************************************************)
MonitoredCookies == {"_ga", "sid"}

\* A row of cookies: creation_time is datetime.now() of the INSERT, here the
\* row's place in the table; is_deleted is 0 unless given.
CookieRow(name, creation_time, is_deleted) ==
    [name |-> name, creation_time |-> creation_time, is_deleted |-> is_deleted]

\* _store_cookie: the INSERT names no is_deleted, the column's DEFAULT 0 applies.
StoreCookie(name) ==
    /\ Len(cookies) < MaxCookies
    /\ cookies' = Append(cookies, CookieRow(name, Len(cookies) + 1, 0))
    /\ UNCHANGED <<experiment, report, analysis>>

\* The rows WHERE name = ? AND is_deleted = 1
DeletedRows(rows, name) ==
    {i \in 1..Len(rows) : rows[i].name = name /\ rows[i].is_deleted = 1}

\* SELECT creation_time ... ORDER BY creation_time DESC LIMIT 1 (NULL: None)
NewestDeleted(rows, name) ==
    IF DeletedRows(rows, name) = {} THEN None
    ELSE LET i == CHOOSE k \in DeletedRows(rows, name) :
                      \A j \in DeletedRows(rows, name) :
                          rows[k].creation_time >= rows[j].creation_time
         IN rows[i].creation_time

\* SELECT COUNT(*) FROM cookies WHERE name = ? AND is_deleted = 1
\* AND creation_time > (newest deleted); a comparison with NULL is not true.
RespawnCount(rows, name) ==
    IF DeletedRows(rows, name) = {} THEN 0
    ELSE Cardinality({i \in DeletedRows(rows, name) :
                         rows[i].creation_time > NewestDeleted(rows, name)})

DetectRespawning(name) ==
    /\ analysis' = [op |-> "detect_respawning", arg |-> name,
                    result |-> (RespawnCount(cookies, name) > 0)]
    /\ UNCHANGED <<cookies, experiment, report>>

\* The tables detect_respawning is asked about: rows in the order of their
\* creation, any of them marked deleted (the column is in the schema; no
\* statement in src sets it).
CookieTables ==
    UNION {{[i \in 1..n |-> CookieRow(names[i], i, marks[i])] :
               names \in [1..n -> MonitoredCookies], marks \in [1..n -> {0, 1}]} :
           n \in 0..MaxCookies}

InitCookie ==
    /\ table = <<>>
    /\ rules = LoadRules(<<>>)
    /\ main = MainIdle
    /\ cur = CurIdle
    /\ blocking_logs = <<>>
    /\ base_domain = None
    /\ requests = <<>>
    /\ graph = EmptyGraph
    /\ analysis = NoAnalysis
    /\ cookies \in CookieTables
    /\ experiment = ExperimentIdle
    /\ report = NoReport

NextCookie ==
    \/ \E n \in MonitoredCookies :
           StoreCookie(n)
           /\ UNCHANGED <<storeVars, engineVars, base_domain, requests, graph>>
    \/ \E n \in MonitoredCookies :
           DetectRespawning(n)
           /\ UNCHANGED <<storeVars, engineVars, base_domain, requests, graph>>

SpecCookie == InitCookie /\ [][NextCookie]_vars

(***************************************************************************)
(* ExperimentRunner.run_experiment: the statements of its try block, its   *)
(* except clause and its finally block.  A driver is named by the object   *)
(* whose constructor creates it.                                           *)
(***************************************************************************)
\* The monitors in the order of the dict literal.
Monitors == <<"cookie", "storage", "network", "javascript">>

\* The configurations: blocking_enabled set or not, base_port given or not.
Configs == [blocking_enabled : BOOLEAN, base_port : BOOLEAN]

\* The statements of the try block after the components are made.
BodySteps ==
    <<"test_sites_run", "setup_blocking_rules", "start_monitoring", "scenarios",
      "analyze", "reports">>

BodyAt(pc) == CHOOSE i \in 1..Len(BodySteps) : BodySteps[i] = pc

RunExperiment(config) ==
    /\ experiment.pc = "idle"
    /\ experiment' = [ExperimentIdle EXCEPT !.pc = "new_test_sites", !.config = config]
    /\ UNCHANGED <<cookies, report>>

\* test_sites = TrackingTestSites(...)
NewTestSites ==
    /\ experiment.pc = "new_test_sites"
    /\ experiment' = [experiment EXCEPT !.pc = "new_blocker"]
    /\ UNCHANGED <<cookies, report>>

\* blocker = TrackingBlocker(): its __init__ starts a driver.
NewBlocker ==
    /\ experiment.pc = "new_blocker"
    /\ experiment' = [experiment EXCEPT !.pc = "new_monitors",
                                        !.created = @ \cup {"blocker"},
                                        !.bound = @ \cup {"blocker"}]
    /\ UNCHANGED <<cookies, report>>

\* The next constructor of the dict literal: each starts a driver; the name
\* monitors is bound after the last.
NewMonitor ==
    /\ experiment.pc = "new_monitors"
    /\ LET k == Cardinality(experiment.created \ {"blocker"}) + 1
       IN experiment' =
              [experiment EXCEPT
                  !.created = @ \cup {Monitors[k]},
                  !.bound = IF k = Len(Monitors) THEN @ \cup {"monitors"} ELSE @,
                  !.pc = IF k = Len(Monitors) THEN BodySteps[1] ELSE @]
    /\ UNCHANGED <<cookies, report>>

\* A statement of the body that ends well.  config['base_port'] of
\* start_monitoring raises KeyError without the key.
BodyStep ==
    /\ experiment.pc \in Range(BodySteps)
    /\ experiment.pc = "start_monitoring" => experiment.config.base_port
    /\ experiment' =
           [experiment EXCEPT
               !.pc = IF BodyAt(experiment.pc) = Len(BodySteps) THEN "finally"
                      ELSE BodySteps[BodyAt(experiment.pc) + 1]]
    /\ UNCHANGED <<cookies, report>>

\* A statement of the try block raises: except Exception records the error.
TryRaise ==
    /\ experiment.pc \in {"new_test_sites", "new_blocker", "new_monitors"}
                             \cup Range(BodySteps)
    /\ experiment' = [experiment EXCEPT !.pc = "finally", !.error = "Exception"]
    /\ UNCHANGED <<cookies, report>>

\* finally: `for monitor in monitors.values()` with monitors not bound raises
\* UnboundLocalError, which leaves run_experiment.
FinallyUnbound ==
    /\ experiment.pc = "finally"
    /\ "monitors" \notin experiment.bound
    /\ experiment' = [experiment EXCEPT !.pc = "idle", !.outcome = "raised",
                                        !.error = "UnboundLocalError"]
    /\ UNCHANGED <<cookies, report>>

\* finally: monitor.cleanup() of the next monitor quits its driver.
CleanupMonitor ==
    /\ experiment.pc = "finally"
    /\ "monitors" \in experiment.bound
    /\ \E k \in 1..Len(Monitors) :
           /\ Monitors[k] \notin experiment.quit
           /\ \A j \in 1..(k - 1) : Monitors[j] \in experiment.quit
           /\ experiment' = [experiment EXCEPT !.quit = @ \cup {Monitors[k]}]
    /\ UNCHANGED <<cookies, report>>

\* finally: blocker.cleanup(), only if config.get('blocking_enabled').
CleanupBlocker ==
    /\ experiment.pc = "finally"
    /\ "monitors" \in experiment.bound
    /\ Range(Monitors) \subseteq experiment.quit
    /\ experiment.config.blocking_enabled
    /\ "blocker" \notin experiment.quit
    /\ experiment' = [experiment EXCEPT !.quit = @ \cup {"blocker"}]
    /\ UNCHANGED <<cookies, report>>

\* return results
ExperimentReturn ==
    /\ experiment.pc = "finally"
    /\ "monitors" \in experiment.bound
    /\ Range(Monitors) \subseteq experiment.quit
    /\ experiment.config.blocking_enabled => "blocker" \in experiment.quit
    /\ experiment' = [experiment EXCEPT !.pc = "idle", !.outcome = "returned"]
    /\ UNCHANGED <<cookies, report>>

NextExperiment ==
    \/ \E c \in Configs : RunExperiment(c) /\ UNCHANGED <<storeVars, engineVars, netVars>>
    \/ NewTestSites /\ UNCHANGED <<storeVars, engineVars, netVars>>
    \/ NewBlocker /\ UNCHANGED <<storeVars, engineVars, netVars>>
    \/ NewMonitor /\ UNCHANGED <<storeVars, engineVars, netVars>>
    \/ BodyStep /\ UNCHANGED <<storeVars, engineVars, netVars>>
    \/ TryRaise /\ UNCHANGED <<storeVars, engineVars, netVars>>
    \/ FinallyUnbound /\ UNCHANGED <<storeVars, engineVars, netVars>>
    \/ CleanupMonitor /\ UNCHANGED <<storeVars, engineVars, netVars>>
    \/ CleanupBlocker /\ UNCHANGED <<storeVars, engineVars, netVars>>
    \/ ExperimentReturn /\ UNCHANGED <<storeVars, engineVars, netVars>>

SpecExperiment == InitNet /\ [][NextExperiment]_vars

(***************************************************************************)
(* The analyses of a graph: centralTrackers and trackingChains (spec.md    *)
(* 4.7; _identify_central_trackers and _identify_tracking_chains are       *)
(* called by _analyze_cross_domain_tracking and defined nowhere in src),   *)
(* and _assess_privacy_risks.                                              *)
(***************************************************************************)
\* The domains of the monitored sites and requests.
Domains == {Netloc(u) : u \in BaseUrls \cup MonitoredUrls} \ {""}

\* The domains in lexicographic order of their names.
DomainOrder == <<"ads.example", "site.com", "sync.example", "x.com">>

Rank(d) == CHOOSE i \in 1..Len(DomainOrder) : DomainOrder[i] = d

\* The number of edges into d.
InDegree(g, d) == Cardinality({e \in g.edges : e[2] = d})

\* d comes before e: higher in-degree, then the lexicographically smaller name.
Before(g, d, e) ==
    \/ InDegree(g, d) > InDegree(g, e)
    \/ InDegree(g, d) = InDegree(g, e) /\ Rank(d) < Rank(e)

RECURSIVE Ranked(_, _)
Ranked(g, nodes) ==
    IF nodes = {} THEN <<>>
    ELSE LET best == CHOOSE d \in nodes : \A e \in nodes \ {d} : Before(g, d, e)
         IN <<<<best, InDegree(g, best)>>>> \o Ranked(g, nodes \ {best})

\* The ranking without the cut to k.
CentralTrackersUncut(g, k) == Ranked(g, g.nodes)

\* centralTrackers(graph, k): (domain, in-degree), in descending in-degree and
\* then lexicographic order, cut to the first k.
CentralTrackers(g, k) ==
    LET all == Ranked(g, g.nodes)
    IN SubSeq(all, 1, IF k < Len(all) THEN k ELSE Len(all))

\* A search that may come back to a node of the path.
RECURSIVE ChainsFromRevisit(_, _, _)
ChainsFromRevisit(g, path, maxLength) ==
    LET here == IF Len(path) - 1 >= 2 THEN {path} ELSE {}
        nexts == IF Len(path) - 1 < maxLength
                 THEN {d \in g.nodes : <<path[Len(path)], d>> \in g.edges}
                 ELSE {}
    IN here \cup UNION {ChainsFromRevisit(g, Append(path, d), maxLength) : d \in nexts}

TrackingChainsRevisit(g, maxLength) ==
    UNION {ChainsFromRevisit(g, <<d>>, maxLength) : d \in g.nodes}

\* The depth-first search from the end of a path: the path is extended only by
\* nodes it does not hold, and by no more than maxLength edges.
RECURSIVE ChainsFrom(_, _, _)
ChainsFrom(g, path, maxLength) ==
    LET here == IF Len(path) - 1 >= 2 THEN {path} ELSE {}
        nexts == IF Len(path) - 1 < maxLength
                 THEN {d \in g.nodes :
                          <<path[Len(path)], d>> \in g.edges /\ d \notin Range(path)}
                 ELSE {}
    IN here \cup UNION {ChainsFrom(g, Append(path, d), maxLength) : d \in nexts}

\* trackingChains(graph, maxLength)
TrackingChains(g, maxLength) ==
    UNION {ChainsFrom(g, <<d>>, maxLength) : d \in g.nodes}

PersistentFingerprinting ==
    [type |-> "persistent_fingerprinting",
     description |-> "Persistent device fingerprinting detected",
     impact |-> "High", mitigation |-> "Use anti-fingerprinting tools"]

Smaller(a, b) == IF a < b THEN a ELSE b

\* A score that a finding lowers.
AssessPrivacyRisksLowered(has_fingerprinting) ==
    [high_risk |-> IF has_fingerprinting THEN <<PersistentFingerprinting>> ELSE <<>>,
     medium_risk |-> <<>>, low_risk |-> <<>>,
     risk_score |-> Smaller(IF has_fingerprinting THEN 0 - 30 ELSE 0, 100)]

\* _assess_privacy_risks, given what _has_persistent_fingerprinting returns.
AssessPrivacyRisks(has_fingerprinting) ==
    [high_risk |-> IF has_fingerprinting THEN <<PersistentFingerprinting>> ELSE <<>>,
     medium_risk |-> <<>>, low_risk |-> <<>>,
     risk_score |-> Smaller(IF has_fingerprinting THEN 30 ELSE 0, 100)]

IdentifyCentralTrackers(k) ==
    /\ analysis' = [op |-> "central_trackers", arg |-> k,
                    result |-> CentralTrackers(graph, k)]
    /\ UNCHANGED <<base_domain, requests, graph>>

IdentifyTrackingChains(maxLength) ==
    /\ analysis' = [op |-> "tracking_chains", arg |-> maxLength,
                    result |-> TrackingChains(graph, maxLength)]
    /\ UNCHANGED <<base_domain, requests, graph>>

AssessRisks(has_fingerprinting) ==
    /\ analysis' = [op |-> "privacy_risks", arg |-> has_fingerprinting,
                    result |-> AssessPrivacyRisks(has_fingerprinting)]
    /\ UNCHANGED <<base_domain, requests, graph>>

\* The graphs of at most MaxEdges edges over the domains.
GraphOf(edges) ==
    [nodes |-> {e[1] : e \in edges} \cup {e[2] : e \in edges}, edges |-> edges]

Graphs ==
    {GraphOf(es) : es \in {x \in SUBSET (Domains \X Domains) : Cardinality(x) <= MaxEdges}}

InitGraph ==
    /\ table = <<>>
    /\ rules = LoadRules(<<>>)
    /\ main = MainIdle
    /\ cur = CurIdle
    /\ blocking_logs = <<>>
    /\ base_domain = None
    /\ requests = <<>>
    /\ graph \in Graphs
    /\ analysis = NoAnalysis
    /\ cookies = <<>>
    /\ experiment = ExperimentIdle
    /\ report = NoReport

NextGraph ==
    \/ \E k \in 0..MaxK : IdentifyCentralTrackers(k) /\ UNCHANGED <<storeVars, engineVars, runVars>>
    \/ \E m \in 0..MaxLength :
           IdentifyTrackingChains(m) /\ UNCHANGED <<storeVars, engineVars, runVars>>
    \/ \E f \in BOOLEAN : AssessRisks(f) /\ UNCHANGED <<storeVars, engineVars, runVars>>

SpecGraph == InitGraph /\ [][NextGraph]_vars

(***************************************************************************)
(* Properties.                                                             *)
(***************************************************************************)
\* The event of cur has been handled to its end.
Handled == cur.pc = "idle" /\ cur.kind \in {"request", "response"}

\* The text of the event of cur that the rules of its category are matched against.
EventTokens == IF cur.kind = "request" THEN UrlTokens(cur.url0) ELSE Range(cur.body0)

\* The places in the evaluated list of the rules that match the event as it arrived.
MatchingAt ==
    {k \in 1..Len(cur.list) :
        Compiles(cur.list[k].pattern) /\ Search(cur.list[k].pattern, EventTokens)}

FirstMatchAt == CHOOSE k \in MatchingAt : \A j \in MatchingAt : k <= j

IdsUpTo(k) == [j \in 1..k |-> cur.list[j].id]

\* C1 (as claimed): for every event handled without an exception, if a rule of
\* the event's category matches, the rules evaluated are those up to the first
\* matching one in the list's order, that rule is the only one applied, and
\* the event is vetoed exactly when that rule's action is block.
C1_FirstMatchDecides ==
    (Handled /\ cur.raised = "none" /\ MatchingAt # {}) =>
        /\ cur.searched = IdsUpTo(FirstMatchAt)
        /\ cur.matched = <<cur.list[FirstMatchAt].id>>
        /\ cur.kind = "request" =>
               (cur.aborted <=> cur.list[FirstMatchAt].action = "block")

\* C2 (as claimed): a fingerprint-forced block (a record with rule_id None and
\* request_type fingerprint, the request aborted) happens only for an event
\* that no rule of its category matches.
C2_FingerprintOnlyUnmatched ==
    (cur.kind = "request" /\ cur.fp) => MatchingAt = {}

\* C3 (as claimed): an event handled without an exception appends no record
\* when no rule matched and there was no fingerprint block, and exactly one
\* record in every other case.
C3_OneRecordPerDecision ==
    (Handled /\ cur.raised = "none") =>
        cur.nlog = IF MatchingAt = {} /\ ~cur.fp THEN 0 ELSE 1

\* C4 (as claimed): in every state, a record appended for the event in hand
\* describes an effect already applied: a request with a block record has
\* been aborted, and a response has no more records than rules applied to it.
C4_EffectBeforeLog ==
    /\ (cur.kind = "request" /\ cur.nlog > 0) => cur.aborted
    /\ (cur.kind = "response") => cur.nlog <= Len(cur.matched)

\* C5 (as claimed): evaluating an event never raises.
C5_EvaluationNeverRaises == cur.raised = "none"

\* The last store operation was op and has returned or raised.
Returned(op) == main.pc = "idle" /\ main.op = op

\* C6 (as claimed): add_rule with a category outside {url, cookie, storage,
\* script} or with a pattern that does not compile fails with an error and
\* leaves the rule table and the index as they were.
C6_AddRuleValidates ==
    (Returned("add_rule")
        /\ (main.arg[1].type \notin Categories \/ ~Compiles(main.arg[1].pattern))) =>
        /\ main.error # "none"
        /\ table = main.table0
        /\ rules = main.rules0

\* The ids of the enabled rows of category k.
EnabledIds(k) ==
    {table[i].id : i \in {j \in 1..Len(table) :
                            table[j].enabled = 1 /\ table[j].rule_type = k}}

IndexIds(k) == {rules[k][i].id : i \in 1..Len(rules[k])}

\* C7 (as claimed): whenever a mutation of the rule store has returned, the
\* index holds exactly the enabled rules of the table, category by category.
C7_IndexMatchesTable ==
    (main.pc = "idle" /\ main.error = "none") =>
        \A k \in Categories : IndexIds(k) = EnabledIds(k)

InvalidEntry(e) ==
    \/ ~HasFields(e)
    \/ e.type \notin Categories
    \/ e.action \notin Actions

C10_NoSelfLoop == \A e \in graph.edges : e[1] # e[2]

\* The third-party rows of the log made on site s to host d.
RecordsFromTo(s, d) ==
    {i \in 1..Len(requests) :
        /\ requests[i].third_party = 1
        /\ requests[i].origin = s
        /\ Netloc(requests[i].url) = d}

\* The multiplicity of an edge: a DiGraph keeps one edge per ordered pair, with
\* no count.
EdgeCount(g, s, d) == IF <<s, d>> \in g.edges THEN 1 ELSE 0

\* C11 (as claimed): a build makes, for every ordered pair of distinct
\* non-empty domains (s, d), the edge s->d exactly when a third-party record
\* was made on s to host d, with a count equal to the number of such records.
C11_EdgesOfRecords ==
    [][AnalyzeCrossDomainTracking =>
          \A s, d \in Domains :
              s # d => EdgeCount(graph', s, d) = Cardinality(RecordsFromTo(s, d))]_vars

\* Scenario 3 of spec.md: site.com->ads.example, site.com->sync.example,
\* sync.example->ads.example.
Scenario3 ==
    <<RequestRow(UrlTrack, "site.com"), RequestRow(UrlSync, "site.com"),
      RequestRow(UrlTrack, "sync.example")>>

\* C12 (as claimed): the three records of scenario 3, stored by the monitor
\* and analysed, give a graph of exactly the three edges, in which ads.example
\* has in-degree 2 and site.com->sync.example->ads.example is a path.
C12_Scenario3Graph ==
    [][(AnalyzeCrossDomainTracking /\ requests = Scenario3) =>
          /\ graph'.edges = {<<"site.com", "ads.example">>,
                             <<"site.com", "sync.example">>,
                             <<"sync.example", "ads.example">>}
          /\ InDegree(graph', "ads.example") = 2]_vars

\* The rows of the log in another order.
RowOrders(n) == {f \in [1..n -> 1..n] : \A i, j \in 1..n : f[i] = f[j] => i = j}

Permuted(rows, f) == [i \in 1..Len(rows) |-> rows[f[i]]]

\* C13: a build gives the graph (nodes and edges) that a build over the same
\* rows in any other order gives, whatever graph an earlier build left.
C13_BuildDeterministic ==
    [][AnalyzeCrossDomainTracking =>
          \A f \in RowOrders(Len(requests)) :
              graph' = BuildGraph(EmptyGraph, Permuted(requests, f))]_vars

\* C13, its case: a graph of two edges or more has been built from the log.
C13_Witness ==
    /\ Cardinality(graph.edges) >= 2
    /\ graph = BuildGraph(EmptyGraph, requests)

\* C14: centralTrackers(graph, k) returns at most k (domain, score) pairs of
\* distinct nodes, each score the in-degree of its domain, in descending score
\* and then ascending lexicographic order, and no node left out comes before
\* one that is returned.
C14_CentralTrackersRanked ==
    analysis.op = "central_trackers" =>
        LET r == analysis.result
            k == analysis.arg
        IN /\ Len(r) <= k
           /\ \A i \in 1..Len(r) : r[i][1] \in graph.nodes /\ r[i][2] = InDegree(graph, r[i][1])
           /\ \A i, j \in 1..Len(r) :
                  i < j => \/ r[i][2] > r[j][2]
                           \/ r[i][2] = r[j][2] /\ Rank(r[i][1]) < Rank(r[j][1])
           /\ \A d \in graph.nodes \ {r[i][1] : i \in 1..Len(r)} :
                  /\ Len(r) = k
                  /\ \A i \in 1..Len(r) : ~Before(graph, d, r[i][1])

\* C14, its case: a ranking cut to k that holds a tie broken by name and leaves
\* a node out.
C14_Witness ==
    /\ analysis.op = "central_trackers"
    /\ Len(analysis.result) >= 2
    /\ Len(analysis.result) < Cardinality(graph.nodes)
    /\ \E i \in 1..(Len(analysis.result) - 1) :
           analysis.result[i][2] = analysis.result[i + 1][2]

\* The simple paths of the graph with 2 to m edges.
SimplePaths(g, m) ==
    {p \in UNION {[1..n -> g.nodes] : n \in 3..(m + 1)} :
        /\ \A i, j \in 1..Len(p) : p[i] = p[j] => i = j
        /\ \A i \in 1..(Len(p) - 1) : <<p[i], p[i + 1]>> \in g.edges}

\* C15: trackingChains(graph, maxLength) is the set of the simple directed
\* paths of the graph with at least two and at most maxLength edges, also when
\* the graph has cycles.
C15_ChainsAreSimplePaths ==
    analysis.op = "tracking_chains" =>
        analysis.result = SimplePaths(graph, analysis.arg)

\* C15, its case: chains found in a graph with a cycle.
C15_Witness ==
    /\ analysis.op = "tracking_chains"
    /\ analysis.result # {}
    /\ \E a, b \in graph.nodes :
           a # b /\ <<a, b>> \in graph.edges /\ <<b, a>> \in graph.edges

\* C16: the risk score is an integer within 0..100, and a finding never
\* lowers it.
C16_RiskScoreBounded ==
    analysis.op = "privacy_risks" =>
        /\ analysis.result.risk_score \in 0..100
        /\ analysis.result.risk_score >= AssessPrivacyRisks(FALSE).risk_score
        /\ Len(analysis.result.high_risk) = 0 =>
               analysis.result.risk_score = AssessPrivacyRisks(FALSE).risk_score

\* C16, its case: an assessment with a finding.
C16_Witness ==
    /\ analysis.op = "privacy_risks"
    /\ Len(analysis.result.high_risk) = 1
    /\ analysis.result.risk_score > 0

QueryKeys(url) == {url.query[i][1] : i \in 1..Len(url.query)}

QueryParams(url) == {url.query[i] : i \in 1..Len(url.query)}

\* A modify rule was applied to the request in hand.
ModifyApplied ==
    /\ cur.kind = "request"
    /\ \E k \in 1..Len(cur.list) :
           cur.list[k].action = "modify" /\ cur.list[k].id \in Range(cur.matched)

\* C17 (as claimed): when a modify rule was applied to a request, the
\* request's URL holds none of the deny-listed query parameters and every
\* other parameter of the original URL with its value.
C17_ModifyStripsParams ==
    (cur.pc = "idle" /\ ModifyApplied) =>
        /\ QueryKeys(cur.url) \cap TrackingParams = {}
        /\ QueryParams(cur.url) =
               {q \in QueryParams(cur.url0) : q[1] \notin TrackingParams}

\* The decision for the event in hand is block: its first matching rule blocks.
DecisionBlock ==
    /\ Handled
    /\ cur.raised = "none"
    /\ MatchingAt # {}
    /\ cur.list[FirstMatchAt].action = "block"

\* C18 (as claimed): when the decision for an event is block, a request is
\* aborted and a response has an empty body, and the event has a single log
\* record, with action block, the id of the matched rule and the host of the
\* request URL as domain.
C18_BlockSuppressesAndLogs ==
    DecisionBlock =>
        /\ cur.kind = "request" => cur.aborted
        /\ cur.kind = "response" => cur.body = <<>>
        /\ cur.nlog = 1
        /\ Len(blocking_logs) >= 1
        /\ LET rec == blocking_logs[Len(blocking_logs)]
           IN /\ rec.action = "block"
              /\ rec.rule_id = cur.list[FirstMatchAt].id
              /\ rec.domain = Netloc(cur.url0)

\* C19 (as claimed): after an event was handled, also when _log_blocking
\* failed, a request that was aborted or rewritten and a response whose body
\* was emptied or rewritten has a record in blocking_logs.
C19_NoEffectWithoutRecord ==
    (Handled /\ (cur.aborted \/ cur.url # cur.url0 \/ cur.body # cur.body0)) =>
        cur.nlog >= 1

\* The places in the cookie rules of the rules that match the cookie set.
CookieMatchingAt ==
    {k \in 1..Len(rules["cookie"]) :
        /\ Compiles(rules["cookie"][k].pattern)
        /\ Search(rules["cookie"][k].pattern, {cur.cookie})}

\* C20 (as claimed): a cookie-set event is evaluated against the enabled
\* cookie rules: the rules searched are those up to the first matching one,
\* and that rule alone decides.
C20_CookieRulesEvaluated ==
    (cur.kind = "cookie" /\ CookieMatchingAt # {}) =>
        LET k == CHOOSE i \in CookieMatchingAt : \A j \in CookieMatchingAt : i <= j
        IN /\ cur.searched = [j \in 1..k |-> rules["cookie"][j].id]
           /\ cur.matched = <<rules["cookie"][k].id>>

\* C30: in every report, total_blocks is the number of records of
\* blocking_logs and the sum of blocks_by_type, top_blocked_domains has at
\* most 10 entries in non-increasing order of count, and blocking_rules.active
\* is the sum of blocking_rules.by_type over the categories.
C30_ReportTotals ==
    [][GenerateReport =>
          LET r == report'
          IN /\ r.total_blocks = Len(blocking_logs)
             /\ r.total_blocks =
                    SumValues(r.blocks_by_type, DOMAIN r.blocks_by_type)
             /\ \A t \in DOMAIN r.blocks_by_type :
                    r.blocks_by_type[t] = CountOf(blocking_logs, "request_type", t)
             /\ Len(r.top_blocked_domains) <= 10
             /\ \A i, j \in 1..Len(r.top_blocked_domains) :
                    i < j => r.top_blocked_domains[i][2] >= r.top_blocked_domains[j][2]
             /\ r.blocking_rules.active =
                    Cardinality({<<k, i>> \in RuleKeys \X (1..Len(table)) :
                                    i <= Len(rules[k])})
             /\ r.blocking_rules.active =
                    SumValues(r.blocking_rules.by_type, RuleKeys)]_vars

\* C30, its case: a report on a log of more than 10 blocked domains, the first
\* of a higher count than the rest.
C30_Witness ==
    /\ report.made
    /\ Cardinality({blocking_logs[i].domain : i \in 1..Len(blocking_logs)}) > 10
    /\ Len(report.top_blocked_domains) = 10
    /\ report.top_blocked_domains[1][2] > report.top_blocked_domains[2][2]
    /\ report.blocking_rules.active >= 2

\* Two records with the same columns.  rule_id is NULL in the records of
\* fingerprinting and a number in every other.
SameRecord(a, b) ==
    /\ a.request_type = b.request_type
    /\ a.action = b.action
    /\ a.request_url = b.request_url
    /\ a.domain = b.domain
    /\ (a.request_type = "fingerprint" \/ a.rule_id = b.rule_id)

IsPrefix(s, t) ==
    /\ Len(s) <= Len(t)
    /\ \A i \in 1..Len(s) : SameRecord(s[i], t[i])

\* C21: blocking_logs is append-only: over every step of interception,
\* add_rule, load_rules and generate_report the records before the step are a
\* prefix of the records after it.
C21_LogAppendOnly == [][IsPrefix(blocking_logs, blocking_logs')]_vars

\* C21, its case: a record was appended after a rule was added, with a report
\* made.
C21_Witness ==
    /\ Len(blocking_logs) >= 2
    /\ main.op = "add_rule"
    /\ report.made

\* C28 (as claimed): an event intercepted while load_rules fills the index is
\* evaluated against the complete list of its category before the mutation or
\* the complete list after it.
C28_EventSeesCompleteIndex ==
    (cur.live /\ cur.pc = "idle") =>
        cur.list \in {main.rules0[ListKey], LoadRules(table)[ListKey]}

\* The decision for the event in hand is log (its first matching rule logs) or
\* allow (no rule matches and no fingerprinting is detected).
DecisionPasses ==
    /\ Handled
    /\ cur.raised = "none"
    /\ \/ MatchingAt # {} /\ cur.list[FirstMatchAt].action = "log"
       \/ /\ MatchingAt = {}
          /\ ~(cur.kind = "request" /\ DetectFingerprinting(cur.reqbody))

\* C22 (as claimed): when the decision for an event is log or allow, the
\* request URL and the response body are as they arrived and the request is
\* not aborted.
C22_LogAllowPassUnchanged ==
    DecisionPasses =>
        /\ cur.url = cur.url0
        /\ cur.body = cur.body0
        /\ ~cur.aborted

IsNetworkRule(row) == row.rule_type \notin {"cookie", "storage"}

\* The table without its cookie and storage rules, the ids kept.
NetworkRules(tbl) == SelectSeq(tbl, IsNetworkRule)

\* C23: the rules searched for a request are url rules and those for a
\* response script rules, a rule counts as matching only if it matches the
\* URL (the body) of the event, and the list walked, the records written and
\* the payload are those of the table without its cookie and storage rules.
C23_OwnCategoryOnly ==
    cur.kind \in {"request", "response"} =>
        /\ \A k \in 1..Len(cur.searched) : table[cur.searched[k]].rule_type = ListKey
        /\ \A k \in 1..Len(cur.matched) :
               \E j \in MatchingAt : cur.list[j].id = cur.matched[k]
        /\ cur.i >= 1 => cur.list = LoadRules(NetworkRules(table))[ListKey]
        /\ \A i \in 1..Len(blocking_logs) :
               \/ blocking_logs[i].request_type = "fingerprint"
               \/ table[blocking_logs[i].rule_id].rule_type =
                      blocking_logs[i].request_type

\* C23, its case: an event handled and matched by a rule of its category
\* while the table holds a cookie rule that matches every text.
C23_Witness ==
    /\ Handled
    /\ cur.matched # <<>>
    /\ \E k \in 1..Len(rules["cookie"]) : rules["cookie"][k].pattern = ".*"

BlockApplied ==
    /\ cur.kind = "response"
    /\ \E k \in 1..Len(cur.list) :
           cur.list[k].action = "block" /\ cur.list[k].id \in Range(cur.matched)

\* C27: once a block rule has emptied the body of a response, the body is
\* empty in every later state of its handling, whatever rules follow.
C27_BlockedBodyStaysEmpty == BlockApplied => cur.body = <<>>

\* C27, its case: a response with content, blocked and then matched by a
\* modify rule whose pattern matches the empty text.
C27_Witness ==
    /\ Handled
    /\ BlockApplied
    /\ cur.body0 # <<>>
    /\ \E k \in 1..Len(cur.list) :
           /\ cur.list[k].action = "modify"
           /\ InPattern("fingerprint", cur.list[k].pattern)
           /\ Len(cur.matched) = 2
           /\ cur.matched[2] = cur.list[k].id
           /\ cur.matched[1] # cur.matched[2]

\* The edges of the third-party rows with a source and a target.
EdgesOfRows(rows) ==
    {<<rows[i].domain, Netloc(rows[i].url)>> :
        i \in {j \in 1..Len(rows) :
                  /\ rows[j].third_party = 1
                  /\ rows[j].domain # ""
                  /\ Netloc(rows[j].url) # ""}}

\* The monitor can store a request now.
AppendEnabled ==
    ENABLED (\E u \in MonitoredUrls :
                 RequestInterceptor(u) /\ UNCHANGED <<storeVars, engineVars, runVars>>)

Respawned(rows, name) ==
    \E i, j \in 1..Len(rows) :
        /\ rows[i].name = name /\ rows[i].is_deleted = 1
        /\ rows[j].name = name
        /\ rows[j].creation_time > rows[i].creation_time

ExperimentEnded == experiment.pc = "idle" /\ experiment.outcome # "none"

\* C29 (as claimed): run_experiment ends by returning, never by an exception,
\* and every driver it created has been quit by then.
C29_ExperimentCleansUp ==
    ExperimentEnded =>
        /\ experiment.outcome = "returned"
        /\ experiment.created \subseteq experiment.quit

====
